---- MODULE Spec2Model ----
(***************************************************************************)
(* Model of resolve_robotics_uri_py: the URI resolver and the search-path  *)
(* collector of src/src/resolve_robotics_uri_py/resolve_robotics_uri_py.py *)
(*                                                                         *)
(* Strings are sequences of tokens.  A token is either one of the          *)
(* punctuation characters "/", ":" and ".", or a run of letters ("file",   *)
(* "x", ...).  No letter token is a substring of a concatenation of the    *)
(* others, so str.startswith, str.replace and str.split on the Python      *)
(* strings coincide with the same operations on the token sequences.       *)
(*                                                                         *)
(* A path (pathlib.Path) is a record [abs, parts]: abs tells whether it    *)
(* is anchored at the root, parts is the sequence of its components, each  *)
(* component being a string.  Path.resolve() makes the path absolute       *)
(* against the current working directory and then walks its components,    *)
(* following symbolic links and stepping back on "..".                     *)
(***************************************************************************)
EXTENDS Integers, Sequences, FiniteSets, TLC

VARIABLES
    env,           \* os.environ: a function from the names that are set to their values
    files,         \* the regular files of the file system (absolute component sequences)
    links,         \* the symbolic links of the file system: link |-> target
    cwd,           \* the current working directory of the process
    pc,            \* "ready", "returned" (a path), "raised" (FileNotFoundError), "exited" (main)
    uri,           \* argument uri of the last call
    package_dirs,  \* argument package_dirs of the last call
    result,        \* outcome of the last call
    exit_code      \* status passed to sys.exit by main, -1 before

vars == <<env, files, links, cwd, pc, uri, package_dirs, result, exit_code>>

(***************************************************************************)
(* Bounds of the inputs drawn by Init.                                     *)
(***************************************************************************)
MaxEntries == 2   \* entries of a path list held by an environment variable
MaxFiles == 2     \* regular files present in the file system

(***************************************************************************)
(* String helpers (str.startswith, str.replace(old, ""), str.split).       *)
(***************************************************************************)
StartsWith(s, prefix) ==
    /\ Len(s) >= Len(prefix)
    /\ SubSeq(s, 1, Len(prefix)) = prefix

RECURSIVE Replace(_, _)
Replace(s, old) ==
    IF s = <<>> THEN <<>>
    ELSE IF StartsWith(s, old)
         THEN Replace(SubSeq(s, Len(old) + 1, Len(s)), old)
         ELSE <<Head(s)>> \o Replace(Tail(s), old)

RECURSIVE Split(_, _)
Split(s, sep) ==
    IF \E i \in 1..Len(s) : s[i] = sep
    THEN LET i == CHOOSE j \in 1..Len(s) :
                     /\ s[j] = sep
                     /\ \A k \in 1..(j - 1) : s[k] # sep
         IN  <<SubSeq(s, 1, i - 1)>> \o Split(SubSeq(s, i + 1, Len(s)), sep)
    ELSE <<s>>

RECURSIVE Concat(_)
Concat(ss) == IF ss = <<>> THEN <<>> ELSE Head(ss) \o Concat(Tail(ss))

SeqToSet(s) == {s[i] : i \in 1..Len(s)}

(***************************************************************************)
(* pathlib                                                                 *)
(***************************************************************************)
RECURSIVE DropEmptyAndDot(_)
DropEmptyAndDot(cs) ==
    IF cs = <<>> THEN <<>>
    ELSE IF Head(cs) = <<>> \/ Head(cs) = <<".">>
         THEN DropEmptyAndDot(Tail(cs))
         ELSE <<Head(cs)>> \o DropEmptyAndDot(Tail(cs))

\* pathlib.Path(s)
Path(s) ==
    [abs   |-> (s # <<>> /\ s[1] = "/"),
     parts |-> DropEmptyAndDot(Split(s, "/"))]

\* p / q : an anchored right operand replaces the left one.
JoinPath(p, q) ==
    IF q.abs THEN q ELSE [abs |-> p.abs, parts |-> p.parts \o q.parts]

RECURSIVE Normalize(_, _)
Normalize(done, todo) ==
    IF todo = <<>> THEN done
    ELSE IF Head(todo) = <<".", ".">>
         THEN Normalize(IF done = <<>> THEN <<>> ELSE SubSeq(done, 1, Len(done) - 1),
                        Tail(todo))
         ELSE LET next == Append(done, Head(todo))
              IN  Normalize(IF next \in DOMAIN links THEN links[next] ELSE next,
                            Tail(todo))

\* Path.resolve()
Resolved(p) ==
    [abs   |-> TRUE,
     parts |-> Normalize(<<>>, IF p.abs THEN p.parts ELSE cwd \o p.parts)]

\* str(path)
Str(p) ==
    IF p.parts = <<>> THEN (IF p.abs THEN <<"/">> ELSE <<".">>)
    ELSE (IF p.abs THEN <<"/">> ELSE <<>>)
         \o Head(p.parts)
         \o Concat([i \in 1..(Len(p.parts) - 1) |-> <<"/">> \o p.parts[i + 1]])

\* The directories of the file system: the fixed ones and the ancestors of the files.
BaseDirs == { <<>>, <<<<"w">>>>, <<<<"d">>>> }

Dirs ==
    (BaseDirs \cup UNION { { SubSeq(f, 1, n) : n \in 0..Len(f) } : f \in files }) \ files

is_file(p) == Resolved(p).parts \in files
is_dir(p) == Resolved(p).parts \in Dirs
exists(p) == is_file(p) \/ is_dir(p)

(***************************************************************************)
(* Program constants                                                       *)
(***************************************************************************)
SupportedSchemes == { <<"file">>, <<"package">>, <<"model">> }

SupportedEnvVars ==
    { "AMENT_PREFIX_PATH", "GAZEBO_MODEL_PATH", "GZ_SIM_RESOURCE_PATH",
      "IGN_GAZEBO_RESOURCE_PATH", "ROS_PACKAGE_PATH", "SDF_PATH" }

\* os.pathsep on the platforms the tests run on
pathsep == ":"

NoPath == [abs |-> FALSE, parts |-> <<>>]

(***************************************************************************)
(* get_search_paths_from_envs                                              *)
(***************************************************************************)
\* A collector that skips the empty entries of a path list.
search_paths_skipping_empty(env_list) ==
    UNION { { IF e # "AMENT_PREFIX_PATH"
              THEN Path(f)
              ELSE JoinPath(Path(f), Path(<<"share">>))
              : f \in SeqToSet(Split(env[e], pathsep)) \ { <<>> } }
            : e \in env_list \cap DOMAIN env }

\* The list comprehension: one path per entry of the value of every variable that is set.
search_paths(env_list) ==
    UNION { { IF e # "AMENT_PREFIX_PATH"
              THEN Path(f)
              ELSE JoinPath(Path(f), Path(<<"share">>))
              : f \in SeqToSet(Split(env[e], pathsep)) }
            : e \in env_list \cap DOMAIN env }

\* Resolve and remove duplicate paths
resolved_search_paths(env_list) == { Resolved(p) : p \in search_paths(env_list) }

\* A collector that keeps the paths that do not exist.
existing_search_paths_unfiltered(env_list) == resolved_search_paths(env_list)

\* Keep only existing paths
existing_search_paths(env_list) ==
    { p \in resolved_search_paths(env_list) : is_dir(p) }

\* The paths named by the warning; the warning is issued iff this set is not empty.
ignored_search_paths(env_list) ==
    resolved_search_paths(env_list) \ existing_search_paths(env_list)

get_search_paths_from_envs(env_list) == existing_search_paths(env_list)

(***************************************************************************)
(* resolve_robotics_uri                                                    *)
(***************************************************************************)
None == [tag |-> "none", val |-> <<>>]
StrArg(s) == [tag |-> "str", val |-> s]
ListArg(l) == [tag |-> "list", val |-> l]

\* package_dirs if isinstance(package_dirs, list) else [package_dirs]
as_list(pd) ==
    IF pd.tag = "list" THEN [i \in 1..Len(pd.val) |-> StrArg(pd.val[i])] ELSE <<pd>>

\* not any(uri.startswith(scheme) for scheme in SupportedSchemes)
has_no_scheme(u) == ~ \E scheme \in SupportedSchemes : StartsWith(u, scheme)

\* uri = f"file://{pathlib.Path(uri).resolve()}" when the URI has no scheme
with_default_scheme(u) ==
    IF has_no_scheme(u)
    THEN <<"file", ":", "/", "/">> \o Str(Resolved(Path(u)))
    ELSE u

\* uri.replace("file://", "") then uri.replace("file:", "")
strip_file_scheme(u) == Replace(Replace(u, <<"file", ":", "/", "/">>), <<"file", ":">>)

\* urlparse(uri).scheme: the text before the first ":" when it consists of scheme
\* characters only (letters and "." here), otherwise the empty string.
parsed_scheme(u) ==
    LET head == Split(u, ":")[1]
    IN  IF /\ Len(head) < Len(u)
           /\ head # <<>>
           /\ head[1] # "."
           /\ \A i \in 1..Len(head) : head[i] # "/"
        THEN head
        ELSE <<>>

\* uri_path.replace(f"{parsed_uri.scheme}://", "")
strip_scheme(u, scheme) == Replace(u, scheme \o <<":", "/", "/">>)

\* The set iterated by the search loop.
search_folders(pd) ==
    get_search_paths_from_envs(SupportedEnvVars)
    \cup { Path(d.val) : d \in { e \in SeqToSet(as_list(pd)) :
                                   /\ e.tag = "str"
                                   /\ e.val # <<>>
                                   /\ exists(Path(e.val)) } }

\* folder / uri_path, resolved
candidate_file_name(folder, uri_path) == Resolved(JoinPath(folder, Path(uri_path)))

\* The body of the search loop, over the folders in iteration order.
RECURSIVE search_loop(_, _, _)
search_loop(order, uri_path, model_filenames) ==
    IF order = <<>> THEN model_filenames
    ELSE LET c == candidate_file_name(Head(order), uri_path)
         IN  search_loop(Tail(order), uri_path,
                         IF is_file(c) /\ c \notin SeqToSet(model_filenames)
                         THEN Append(model_filenames, c)
                         ELSE model_filenames)

\* A resolver that returns the last file found.
chosen_file_last(model_filenames) == Resolved(model_filenames[Len(model_filenames)])

\* The file found, the first of the list.
chosen_file(model_filenames) == Resolved(model_filenames[1])

Outcome(status, path, message_uri, ignored, multiple, searched, found) ==
    [status |-> status, path |-> path, message_uri |-> message_uri,
     ignored |-> ignored, multiple |-> multiple,
     searched |-> searched, model_filenames |-> found]

\* The whole function; order is the order in which the set of folders is iterated.
resolve_robotics_uri(u0, pd, order) ==
    LET u1 == with_default_scheme(u0)
    IN  IF StartsWith(u1, <<"file", ":">>)
        THEN LET u2 == strip_file_scheme(u1)
                 uri_file_path == Resolved(Path(u2))
             IN  IF ~ is_file(uri_file_path)
                 THEN Outcome("raised", NoPath, u2, {}, <<>>, <<>>, <<>>)
                 ELSE Outcome("returned", Resolved(uri_file_path), <<>>, {}, <<>>, <<>>, <<>>)
        ELSE IF parsed_scheme(u1) \notin SupportedSchemes
        THEN Outcome("raised", NoPath, u1, {}, <<>>, <<>>, <<>>)
        ELSE LET uri_path == strip_scheme(u1, parsed_scheme(u1))
                 model_filenames == search_loop(order, uri_path, <<>>)
                 ignored == ignored_search_paths(SupportedEnvVars)
             IN  IF Len(model_filenames) = 0
                 THEN Outcome("raised", NoPath, u1, ignored, <<>>, order, model_filenames)
                 ELSE Outcome("returned", chosen_file(model_filenames), <<>>, ignored,
                              IF Len(model_filenames) > 1 THEN model_filenames ELSE <<>>,
                              order, model_filenames)

\* Whether the call reaches the search loop.
reaches_search(u0) ==
    LET u1 == with_default_scheme(u0)
    IN  /\ ~ StartsWith(u1, <<"file", ":">>)
        /\ parsed_scheme(u1) \in SupportedSchemes

\* The orders in which a set can be iterated.
Orders(S) ==
    { s \in [1..Cardinality(S) -> S] :
        \A i, j \in 1..Cardinality(S) : i # j => s[i] # s[j] }

iteration_orders(u0, pd) ==
    IF reaches_search(u0) THEN Orders(search_folders(pd)) ELSE { <<>> }

(***************************************************************************)
(* Inputs                                                                  *)
(***************************************************************************)
W == <<<<"w">>>>     \* the current working directory, /w

\* Every file that may exist.  SearchFiles are the ones drawn together with
\* an environment; the others are drawn with an empty environment.
SearchFiles ==
    { << <<"d">>, <<"x">> >>,                 \* /d/x
      << <<"w">>, <<"x">> >>,                 \* /w/x
      << <<"x">> >>,                          \* /x
      << <<"d">>, <<"share">>, <<"x">> >>,    \* /d/share/x
      << <<"w">>, <<"share">>, <<"x">> >> }   \* /w/share/x

OtherFiles ==
    { << <<"w">>, <<"model", ".", "x">> >>,   \* /w/model.x
      << <<"w">>, <<"ftp", ":">>, <<"x">> >>, \* /w/ftp:/x
      << <<"d">>, <<"file", ":", "x">> >> }   \* /d/file:x

FileSystems(universe) == { fs \in SUBSET universe : Cardinality(fs) <= MaxFiles }

\* The entries of a path list: empty, an existing directory, a missing one.
Entries == { <<>>, <<"/", "d">>, <<"/", "n">> }

\* With the symbolic link /l -> /d: the link and its target.
LinkEntries == { <<"/", "l">>, <<"/", "d">> }

LinkFiles ==
    { << <<"d">>, <<"x">> >>,                 \* /d/x
      << <<"x">> >> }                         \* /x

NoLinks == [p \in {} |-> <<>>]
OneLink == [p \in { <<<<"l">>>> } |-> <<<<"d">>>>]

RECURSIVE JoinEntries(_)
JoinEntries(es) ==
    IF Len(es) = 1 THEN es[1] ELSE es[1] \o <<pathsep>> \o JoinEntries(Tail(es))

EnvValues(entries) ==
    UNION { { JoinEntries(es) : es \in [1..n -> entries] } : n \in 1..MaxEntries }

\* The variables Init may set: the one with the "share" rule, two of the
\* others, and one outside the supported set.
EnvNames ==
    { "AMENT_PREFIX_PATH", "GZ_SIM_RESOURCE_PATH", "SDF_PATH", "MY_SEARCH_PATH" }

NoEnv == [n \in {} |-> <<>>]

\* At most one variable is set.
Environments(entries) ==
    { NoEnv }
    \cup UNION { { [n \in {name} |-> v] : v \in EnvValues(entries) } : name \in EnvNames }

Prefixes ==
    { <<>>,
      <<"file", ":", "/", "/">>,
      <<"file", ":">>,
      <<"package", ":", "/", "/">>,
      <<"model", ":", "/", "/">>,
      <<"ftp", ":", "/", "/">> }

Bodies ==
    { <<"x">>,
      <<"/", "d", "/", "x">>,
      <<".", ".", "/", "x">>,
      <<"model", ".", "x">>,
      <<"/", "d", "/", "file", ":", "x">>,
      <<"model", ":", "/", "/", "x">> }

URIs == { prefix \o body : prefix \in Prefixes, body \in Bodies }

PackageDirs ==
    { None,
      StrArg(<<"MY_SEARCH_PATH">>),
      StrArg(<<"/", "d">>),
      ListArg(<< <<".", ".", "/", "d">>, <<"/", "l">>, <<"/", "n">> >>) }

(***************************************************************************)
(* The state machine: a process in some environment and file system calls  *)
(* resolve_robotics_uri, or runs the command line (main).                  *)
(***************************************************************************)
NoResult == Outcome("none", NoPath, <<>>, {}, <<>>, <<>>, <<>>)

Init ==
    /\ cwd = W
    /\ \/ /\ links = NoLinks
          /\ env \in Environments(Entries)
          /\ files \in FileSystems(SearchFiles)
       \/ /\ links = NoLinks
          /\ env = NoEnv
          /\ files \in FileSystems(SearchFiles \cup OtherFiles)
       \/ /\ links = OneLink
          /\ env \in Environments(LinkEntries)
          /\ files \in FileSystems(LinkFiles)
    /\ pc = "ready"
    /\ uri = <<>>
    /\ package_dirs = None
    /\ result = NoResult
    /\ exit_code = -1

\* A call of resolve_robotics_uri(u, pd).
Resolve(u, pd) ==
    /\ pc = "ready"
    /\ \E order \in iteration_orders(u, pd) :
          result' = resolve_robotics_uri(u, pd, order)
    /\ pc' = result'.status
    /\ uri' = u
    /\ package_dirs' = pd
    /\ UNCHANGED <<env, files, links, cwd, exit_code>>

\* main(): the result goes to stdout with status 0, the error to stderr with status 1.
Main(u, pd) ==
    /\ pc = "ready"
    /\ pd.tag # "list"
    /\ \E order \in iteration_orders(u, pd) :
          result' = resolve_robotics_uri(u, pd, order)
    /\ exit_code' = IF result'.status = "raised" THEN 1 ELSE 0
    /\ pc' = "exited"
    /\ uri' = u
    /\ package_dirs' = pd
    /\ UNCHANGED <<env, files, links, cwd>>

Next ==
    \/ \E u \in URIs, pd \in PackageDirs : Resolve(u, pd)
    \/ \E u \in URIs, pd \in PackageDirs : Main(u, pd)

Spec == Init /\ [][Next]_vars

(***************************************************************************)
(* Vocabulary of the properties                                            *)
(***************************************************************************)
Called == pc \in {"returned", "raised", "exited"}

FilePrefix == <<"file", ":", "/", "/">>
FileShortPrefix == <<"file", ":">>
PackagePrefix == <<"package", ":", "/", "/">>
ModelPrefix == <<"model", ":", "/", "/">>

\* What follows the first four tokens ("scheme://") of a URI.
AfterPrefix(u) == SubSeq(u, 5, Len(u))

\* A relative path in normal form: no empty, "." or ".." component.
NormalRelative(p) ==
    /\ p # <<>>
    /\ \A c \in SeqToSet(Split(p, "/")) : c \notin { <<>>, <<".">>, <<".", ".">> }

IsAbsolute(p) == p # <<>> /\ p[1] = "/"

\* The file D/p for a directory D and a normal relative path p.
Beneath(D, p) == [abs |-> TRUE, parts |-> D.parts \o Path(p).parts]

IsPrefixOf(s, t) == Len(s) <= Len(t) /\ SubSeq(t, 1, Len(s)) = s

IsInfixOf(s, t) == \E i \in 0..(Len(t) - Len(s)) : SubSeq(t, i + 1, i + Len(s)) = s

\* The directories named by the entries of the supported variables that are set.
NamedDirs ==
    UNION { { Resolved(IF e = "AMENT_PREFIX_PATH"
                       THEN JoinPath(Path(f), Path(<<"share">>))
                       ELSE Path(f))
              : f \in SeqToSet(Split(env[e], pathsep)) }
            : e \in SupportedEnvVars \cap DOMAIN env }

MissingDirs == { d \in NamedDirs : d.parts \notin Dirs }

\* The named directories that exist and contain p as a regular file.
Holders(p) == { d \in NamedDirs : d.parts \in Dirs /\ Beneath(d, p).parts \in files }

SameOutcome(r1, r2) == r1.status = r2.status /\ r1.path = r2.path

(***************************************************************************)
(* C1: for package:// and model://, when a supported environment variable  *)
(* lists directories some of which do not exist and exactly one existing   *)
(* listed directory D contains the relative path p as a regular file,      *)
(* resolve(scheme://p) returns D/p; the missing directories are not        *)
(* searched and are named by the warning.                                  *)
(***************************************************************************)
C1_MissingDirsOnlyWarn ==
    \A prefix \in {PackagePrefix, ModelPrefix} :
        ( /\ Called
          /\ package_dirs = None
          /\ StartsWith(uri, prefix)
          /\ NormalRelative(AfterPrefix(uri))
          /\ MissingDirs # {}
          /\ Cardinality(Holders(AfterPrefix(uri))) = 1 )
        => LET D == CHOOSE d \in Holders(AfterPrefix(uri)) : TRUE
           IN  /\ result.status = "returned"
               /\ result.path = Beneath(D, AfterPrefix(uri))
               /\ MissingDirs \cap SeqToSet(result.searched) = {}
               /\ result.ignored = MissingDirs

C1_Witness ==
    /\ pc = "returned"
    /\ package_dirs = None
    /\ StartsWith(uri, ModelPrefix)
    /\ NormalRelative(AfterPrefix(uri))
    /\ MissingDirs # {}
    /\ Cardinality(Holders(AfterPrefix(uri))) = 1
    /\ result.ignored # {}

(***************************************************************************)
(* C2: a URI that does not begin with "file:", "package://" or "model://"  *)
(* has the outcome of resolve("file://" + absolute(cwd, uri)); this        *)
(* includes bare names whose first letters spell a scheme ("model.urdf").  *)
(***************************************************************************)
HasSchemePrefix(u) ==
    \/ StartsWith(u, FileShortPrefix)
    \/ StartsWith(u, PackagePrefix)
    \/ StartsWith(u, ModelPrefix)

C2_BarePathIsFileUri ==
    (Called /\ ~ HasSchemePrefix(uri))
    => SameOutcome(result,
                   resolve_robotics_uri(FilePrefix \o Str(Resolved(Path(uri))),
                                        package_dirs, result.searched))

(***************************************************************************)
(* C3: a URI whose scheme token is none of file, package, model always     *)
(* raises NotFound; it is never treated as a file path.                    *)
(***************************************************************************)
SchemeToken(u) == Split(u, ":")[1]

HasForeignScheme(u) ==
    /\ Len(SchemeToken(u)) < Len(u)
    /\ Len(SchemeToken(u)) = 1
    /\ SchemeToken(u)[1] \notin {"/", "."}
    /\ SchemeToken(u) \notin SupportedSchemes

C3_ForeignSchemeRaises ==
    (Called /\ HasForeignScheme(uri)) => result.status = "raised"

(***************************************************************************)
(* C4: when package_dirs is the name of an environment variable outside    *)
(* the fixed set whose value is an existing directory D containing p,      *)
(* resolve("model://" + p, name) returns D/p; when the value names a       *)
(* missing directory and no other search directory contains p, it raises   *)
(* NotFound.                                                               *)
(***************************************************************************)
NamesExtraVariable(pd) ==
    /\ pd.tag = "str"
    /\ Len(pd.val) = 1
    /\ pd.val[1] \in DOMAIN env
    /\ pd.val[1] \notin SupportedEnvVars
    /\ Len(Split(env[pd.val[1]], pathsep)) = 1
    /\ IsAbsolute(env[pd.val[1]])

ExtraVariableDir(pd) == Resolved(Path(env[pd.val[1]]))

C4_ExtraVariableIsSearched ==
    ( /\ Called
      /\ StartsWith(uri, ModelPrefix)
      /\ NormalRelative(AfterPrefix(uri))
      /\ NamesExtraVariable(package_dirs) )
    => /\ ( /\ ExtraVariableDir(package_dirs).parts \in Dirs
            /\ Beneath(ExtraVariableDir(package_dirs), AfterPrefix(uri)).parts \in files )
          => ( /\ result.status = "returned"
               /\ result.path = Beneath(ExtraVariableDir(package_dirs), AfterPrefix(uri)) )
       /\ ( /\ ExtraVariableDir(package_dirs).parts \notin Dirs
            /\ Holders(AfterPrefix(uri)) = {} )
          => result.status = "raised"

(***************************************************************************)
(* C5: for a package:/model: URI whose path part begins with "/", the      *)
(* candidate for a search directory D is the file at that path beneath D,  *)
(* never the path taken from the file-system root; so the absolute path of *)
(* an existing file that lies under no search directory gives NotFound,    *)
(* whatever directories are searched.                                      *)
(***************************************************************************)
LiesUnder(f, d) == IsPrefixOf(Resolved(d).parts, Resolved(f).parts)

C5_AbsolutePartStaysBeneath ==
    \A prefix \in {PackagePrefix, ModelPrefix} :
        ( /\ Called
          /\ StartsWith(uri, prefix)
          /\ IsAbsolute(AfterPrefix(uri))
          /\ NormalRelative(Tail(AfterPrefix(uri))) )
        => /\ result.status = "returned"
              => \E d \in SeqToSet(result.searched) :
                    result.path = Beneath(Resolved(d), Tail(AfterPrefix(uri)))
           /\ ( /\ is_file(Path(AfterPrefix(uri)))
                /\ \A d \in SeqToSet(result.searched) :
                      ~ LiesUnder(Path(AfterPrefix(uri)), d) )
              => result.status = "raised"

(***************************************************************************)
(* C6: for an absolute path A, resolve("file://" + A) and                  *)
(* resolve("file:" + A) have the same outcome: the normalization of        *)
(* exactly A when A is an existing regular file, NotFound otherwise,       *)
(* whatever characters A contains.                                         *)
(***************************************************************************)
C6_FileFormsLookUpA ==
    ( /\ Called
      /\ StartsWith(uri, FilePrefix)
      /\ IsAbsolute(AfterPrefix(uri)) )
    => LET A == AfterPrefix(uri)
           short == resolve_robotics_uri(FileShortPrefix \o A, package_dirs, <<>>)
       IN  /\ SameOutcome(result, short)
           /\ is_file(Path(A))
              => (result.status = "returned" /\ result.path = Resolved(Path(A)))
           /\ ~ is_file(Path(A)) => result.status = "raised"

(***************************************************************************)
(* C7: for every path part p, resolve("package://" + p) and                *)
(* resolve("model://" + p) have the same outcome in the same environment,  *)
(* file system and extra search path.                                      *)
(***************************************************************************)
C7_SchemeEquivalence ==
    (Called /\ StartsWith(uri, PackagePrefix))
    => SameOutcome(result,
                   resolve_robotics_uri(ModelPrefix \o AfterPrefix(uri),
                                        package_dirs, result.searched))

(***************************************************************************)
(* C8: every NotFound error carries the URI exactly as the caller passed   *)
(* it (here: the text put into the message contains the caller's URI).     *)
(***************************************************************************)
C8_ErrorCarriesUri ==
    (Called /\ result.status = "raised") => IsInfixOf(uri, result.message_uri)

(***************************************************************************)
(* C9: for a package:/model: URI, when two or more search directories      *)
(* yield distinct normalized existing files, resolve does not raise, warns *)
(* once listing all the hits and returns the first hit in the iteration    *)
(* order of the search directories; when the directories that yield a file *)
(* all yield the same normalized file, there is a single hit and no        *)
(* ambiguity warning.                                                      *)
(***************************************************************************)
IsSearchUri(u) == StartsWith(u, PackagePrefix) \/ StartsWith(u, ModelPrefix)

\* The normalized file a searched directory stands for.
Yield(d) == candidate_file_name(d, strip_scheme(uri, parsed_scheme(uri)))

YieldingDirs == { j \in 1..Len(result.searched) : is_file(Yield(result.searched[j])) }

Hits == { Yield(result.searched[j]) : j \in YieldingDirs }

FirstHit ==
    Yield(result.searched[CHOOSE j \in YieldingDirs : \A k \in YieldingDirs : j <= k])

C9_AmbiguityReturnsFirstHit ==
    (Called /\ IsSearchUri(uri))
    => /\ Cardinality(Hits) >= 2
          => /\ result.status = "returned"
             /\ Len(result.multiple) = Cardinality(Hits)
             /\ SeqToSet(result.multiple) = Hits
             /\ result.path = FirstHit
             /\ result.path \in Hits
       /\ Cardinality(Hits) = 1
          => /\ result.status = "returned"
             /\ Len(result.model_filenames) = 1
             /\ result.multiple = <<>>
             /\ result.path \in Hits

C9_Witness ==
    /\ pc = "returned"
    /\ IsSearchUri(uri)
    /\ Cardinality(Hits) >= 2
    /\ Cardinality(YieldingDirs) >= 2
    /\ result.path = FirstHit
    /\ result.path # Yield(result.searched[CHOOSE j \in YieldingDirs :
                                              \A k \in YieldingDirs : j >= k])

\* Several directories standing for one normalized file: reached as well.
C9_CollapseReached ==
    /\ pc = "returned"
    /\ IsSearchUri(uri)
    /\ Cardinality(YieldingDirs) >= 2
    /\ Cardinality(Hits) = 1

(***************************************************************************)
(* C10: an empty entry in the value of a supported environment variable    *)
(* stands for the current working directory (cwd/share for                 *)
(* AMENT_PREFIX_PATH), so the current working directory is searched and    *)
(* resolve("package://" + p) returns cwd/p when that file exists.          *)
(***************************************************************************)
CwdPath == [abs |-> TRUE, parts |-> cwd]

HasEmptyEntry(e) == e \in DOMAIN env /\ <<>> \in SeqToSet(Split(env[e], pathsep))

EmptyEntryCase ==
    /\ Called
    /\ package_dirs = None
    /\ StartsWith(uri, PackagePrefix)
    /\ NormalRelative(AfterPrefix(uri))
    /\ \E e \in SupportedEnvVars \ {"AMENT_PREFIX_PATH"} : HasEmptyEntry(e)
    /\ Beneath(CwdPath, AfterPrefix(uri)).parts \in files

\* The claim as stated.
C10_EmptyEntryReturnsCwdFile ==
    EmptyEntryCase
    => /\ result.status = "returned"
       /\ result.path = Beneath(CwdPath, AfterPrefix(uri))

\* The claim as amended: cwd/p is returned when no other search directory
\* holds p; otherwise cwd/p is one of the hits listed by the ambiguity
\* warning and the first hit in iteration order is returned.
C10_EmptyEntrySearchesCwd ==
    /\ EmptyEntryCase
       => /\ CwdPath \in SeqToSet(result.searched)
          /\ result.status = "returned"
          /\ Holders(AfterPrefix(uri)) = {CwdPath}
             => result.path = Beneath(CwdPath, AfterPrefix(uri))
          /\ Holders(AfterPrefix(uri)) # {CwdPath}
             => /\ Beneath(CwdPath, AfterPrefix(uri)) \in SeqToSet(result.multiple)
                /\ result.path = result.multiple[1]
    /\ (Called /\ IsSearchUri(uri) /\ HasEmptyEntry("AMENT_PREFIX_PATH"))
       => LET share == Beneath(CwdPath, <<"share">>)
          IN  IF share.parts \in Dirs
              THEN share \in SeqToSet(result.searched)
              ELSE share \in result.ignored

C10_Witness ==
    /\ EmptyEntryCase
    /\ pc = "returned"
    /\ result.path = Beneath(CwdPath, AfterPrefix(uri))
    /\ CwdPath \in SeqToSet(result.searched)
    /\ \A e \in DOMAIN env :
          \A f \in SeqToSet(Split(env[e], pathsep)) \ { <<>> } :
             Resolved(Path(f)) # CwdPath

====
